---- MODULE Spec2Model ----
(***************************************************************************)
(* Model of src/app.py: the football analysis application.                 *)
(*                                                                         *)
(*   load_data                  reads results.csv and shootouts.csv,       *)
(*                              derives the outcome column, left-merges    *)
(*                              the shootout winners and derives the       *)
(*                              shootout flag                              *)
(*   prepare_head_to_head_data  the head-to-head selection                 *)
(*   the "Head-to-Head" page    adds the outcome_label column              *)
(*   prepare_world_cup_data     the FIFA World Cup summary of one year     *)
(*                                                                         *)
(* A data frame is a sequence of records (one per row, in row order).      *)
(* A text that the code searches in (the tournament name) is a sequence of *)
(* one-character strings; every other text is a string.  A date is a day   *)
(* number, YearOf gives its calendar year.  NaN is the string "NaN".       *)
(***************************************************************************)
EXTENDS Integers, Sequences, FiniteSets, TLC

VARIABLES
    results_csv,      \* rows of results.csv as read (l.20)
    shootouts_csv,    \* rows of shootouts.csv as read (l.21)
    results_df,       \* the module-level annotated match table (l.46)
    pc,               \* position of the script: start, ready, h2h, wc
    args,             \* the parameters of the query that ran last
    head_to_head_df,  \* the labelled head-to-head frame (l.136-147)
    wc_result,        \* what prepare_world_cup_data returned (l.170)
    final_branch      \* the branch of l.79-83 the last summary took

vars == <<results_csv, shootouts_csv, results_df, pc, args,
          head_to_head_df, wc_result, final_branch>>

----------------------------------------------------------------------------
(* Bounds of the model *)

MaxRows == 2
MaxShootouts == 2
DaysPerYear == 2

----------------------------------------------------------------------------
(* Values *)

NaN == "NaN"
None == "None"
Draw == "Draw"

Teams == {"A", "B", "C"}

\* the fixtures played, (home, away): one pairing both ways round, and a
\* fixture with a third team; no team plays itself
Fixtures == {<<"A", "B">>, <<"B", "A">>, <<"B", "C">>}

\* 'FIFA World Cup' (l.62), abbreviated to its initials, and one other name
FIFA_World_Cup == <<"W", "C">>
Friendly == <<"F", "r", ".">>
Tournaments == {FIFA_World_Cup, Friendly}

\* the tournament arguments tried: '' ("All", l.118), a name in the other
\* case, and the character "."
TournamentArgs == {<<>>, <<"w", "c">>, <<".">>}

\* with DaysPerYear = 2, days 0 and 1 are in one calendar year, day 2 in
\* the next
Dates == {0, 1, 2}
Scores == {0, 1}
YearOf(date) == date \div DaysPerYear
Years == {YearOf(d) : d \in Dates}

SeqsUpTo(S, n) == UNION {[1..k -> S] : k \in 0..n}

Row(f, date, hs, as, tournament) ==
    [date |-> date, home_team |-> f[1], away_team |-> f[2],
     home_score |-> hs, away_score |-> as, tournament |-> tournament]

\* rows of results.csv: World Cup matches on days 1 and 2, and friendlies
\* of A v B on day 1
ResultRows ==
    {Row(f, d, hs, as, FIFA_World_Cup) :
        f \in Fixtures, d \in {1, 2}, hs \in Scores, as \in Scores}
    \cup {Row(<<"A", "B">>, 1, hs, as, Friendly) : hs \in Scores, as \in Scores}

\* rows of shootouts.csv: the shootouts of the fixture A v B on day 1, won
\* by either team or with the winner missing
ShootoutRows ==
    {[date |-> 1, home_team |-> "A", away_team |-> "B", winner |-> w] :
        w \in {"A", "B", NaN}}

----------------------------------------------------------------------------
(* load_data *)

\* l.28-32: the outcome column
OutcomeTieToHome(row) ==
    IF row.home_score >= row.away_score THEN row.home_team
    ELSE row.away_team
Outcome(row) ==
    IF row.home_score > row.away_score THEN row.home_team
    ELSE IF row.away_score > row.home_score THEN row.away_team
    ELSE Draw

WithOutcome(row) ==
    [date |-> row.date, home_team |-> row.home_team,
     away_team |-> row.away_team, home_score |-> row.home_score,
     away_score |-> row.away_score, tournament |-> row.tournament,
     outcome |-> Outcome(row)]

\* l.37: the merge key
SameKey(l, r) ==
    /\ l.date = r.date
    /\ l.home_team = r.home_team
    /\ l.away_team = r.away_team

\* l.42: the shootout column
ShootoutFlagPresent(winner, matched) == matched
ShootoutFlag(winner, matched) == winner # NaN

Annotated(row, winner, matched) ==
    [date |-> row.date, home_team |-> row.home_team,
     away_team |-> row.away_team, home_score |-> row.home_score,
     away_score |-> row.away_score, tournament |-> row.tournament,
     outcome |-> row.outcome, winner |-> winner,
     shootout |-> ShootoutFlag(winner, matched)]

\* l.35-39, how='left': a left row with no right row of its key gives one
\* row with a missing winner; otherwise one row per right row of its key,
\* in the order of the right rows
MergeRow(row, right) ==
    LET hits == SelectSeq(right, LAMBDA s : SameKey(row, s))
    IN  IF hits = <<>>
        THEN <<Annotated(row, NaN, FALSE)>>
        ELSE [i \in 1..Len(hits) |-> Annotated(row, hits[i].winner, TRUE)]

RECURSIVE Merge(_, _)
Merge(left, right) ==
    IF left = <<>> THEN <<>>
    ELSE MergeRow(Head(left), right) \o Merge(Tail(left), right)

\* l.18-44: the table load_data returns
load_data(results, shootouts) ==
    Merge([i \in 1..Len(results) |-> WithOutcome(results[i])], shootouts)

----------------------------------------------------------------------------
(* prepare_head_to_head_data *)

\* case=False: the two cases of a letter are one
Lower(c) ==
    CASE c = "W" -> "w"
      [] c = "C" -> "c"
      [] c = "F" -> "f"
      [] c = "R" -> "r"
      [] OTHER -> c

\* one character of the pattern against one of the text, regex=True (the
\* default of str.contains): "." stands for any character, a letter for
\* itself in either case
CharMatches(p, c) == p = "." \/ Lower(p) = Lower(c)

\* l.53: Series.str.contains(pat, case=False, na=False), a search of the
\* pattern at every offset of the text
str_contains(text, pat) ==
    \E i \in 0..(Len(text) - Len(pat)) :
        \A j \in 1..Len(pat) : CharMatches(pat[j], text[i + j])

\* l.54: Series.between(left, right), inclusive='both'
between(date, left, right) == left <= date /\ date <= right

\* l.51-52: the two orientations of the pairing
PairEitherSide(row, team1, team2) ==
    \/ row.home_team = team1 \/ row.away_team = team2
    \/ row.home_team = team2 \/ row.away_team = team1
PairMatches(row, team1, team2) ==
    \/ (row.home_team = team1 /\ row.away_team = team2)
    \/ (row.home_team = team2 /\ row.away_team = team1)

\* l.49-56
prepare_head_to_head_data(df, team1, team2, tournament, start_date, end_date) ==
    SelectSeq(df, LAMBDA row :
        /\ PairMatches(row, team1, team2)
        /\ str_contains(row.tournament, tournament)
        /\ between(row.date, start_date, end_date))

\* l.146: the label of one outcome
outcome_label_swapped(x, team1, team2) ==
    IF x = team1 THEN team2 \o " Win"
    ELSE IF x = team2 THEN team1 \o " Win"
    ELSE Draw
outcome_label(x, team1, team2) ==
    IF x = team1 THEN team1 \o " Win"
    ELSE IF x = team2 THEN team2 \o " Win"
    ELSE Draw

\* l.145-147: the frame with its outcome_label column
Labelled(df, team1, team2) ==
    [i \in 1..Len(df) |->
        [row |-> df[i],
         outcome_label |-> outcome_label(df[i].outcome, team1, team2)]]

\* l.50, l.145: the selection is a new frame (boolean indexing copies), and
\* the column is added to it; the module-level table is what it was
TableAfterLabelling(df, team1, team2) == df

----------------------------------------------------------------------------
(* prepare_world_cup_data *)

\* l.61-64
wc_df(df, year) ==
    SelectSeq(df, LAMBDA row :
        row.tournament = FIFA_World_Cup /\ YearOf(row.date) = year)

RECURSIVE SumOver(_, _)
SumOver(df, field) ==
    IF df = <<>> THEN 0 ELSE df[1][field] + SumOver(Tail(df), field)

\* l.71
total_goals(sel) == SumOver(sel, "home_score") + SumOver(sel, "away_score")

\* l.72
total_teams(sel) ==
    Cardinality({sel[i].home_team : i \in 1..Len(sel)}
                \cup {sel[i].away_team : i \in 1..Len(sel)})

\* l.79-83: the branch taken for the final match
FinalBranch(final_match) ==
    IF final_match.winner = NaN
    THEN IF final_match.shootout THEN "penalties" ELSE "draw"
    ELSE "kept"

\* l.79-83: the winner the final match is returned with
FinalWinnerAlwaysDraw(final_match) ==
    IF final_match.home_score = final_match.away_score
    THEN Draw ELSE final_match.winner
FinalWinner(final_match) ==
    IF final_match.winner = NaN
    THEN IF final_match.shootout
         THEN "Winner (Penalties): " \o
              (IF final_match.home_score > final_match.away_score
               THEN final_match.home_team ELSE final_match.away_team)
         ELSE Draw
    ELSE final_match.winner

\* l.59-85: the five values returned; the average is kept as the fraction
\* total_goals / total_matches
prepare_world_cup_data(df, year) ==
    LET sel == wc_df(df, year)
    IN  IF sel = <<>>
        THEN [total_matches |-> None, total_goals |-> None,
              total_teams |-> None, avg_goals_per_game |-> None,
              final_match |-> None]
        ELSE LET final_match == sel[Len(sel)]
             IN  [total_matches |-> Len(sel),
                  total_goals |-> total_goals(sel),
                  total_teams |-> total_teams(sel),
                  avg_goals_per_game |->
                      [num |-> total_goals(sel), den |-> Len(sel)],
                  final_match |->
                      [final_match EXCEPT !.winner = FinalWinner(final_match)]]

\* l.76, l.81-83: iloc[-1] gives a row of its own, and the winner is set on
\* that row; the module-level table is what it was
TableFinalSetInPlace(df, year) ==
    LET idx == {i \in 1..Len(df) :
                   df[i].tournament = FIFA_World_Cup /\ YearOf(df[i].date) = year}
    IN  IF idx = {} THEN df
        ELSE LET last == CHOOSE i \in idx : \A k \in idx : k <= i
             IN  [df EXCEPT ![last].winner = FinalWinner(df[last])]
TableAfterSummary(df, year) == df

----------------------------------------------------------------------------
(* The script *)

NoArgs == [query |-> "none"]
NoSummary == [total_matches |-> None, total_goals |-> None,
              total_teams |-> None, avg_goals_per_game |-> None,
              final_match |-> None]

Start(results, shootouts) ==
    /\ results_csv \in SeqsUpTo(results, MaxRows)
    /\ shootouts_csv \in SeqsUpTo(shootouts, MaxShootouts)
    /\ results_df = <<>>
    /\ pc = "start"
    /\ args = NoArgs
    /\ head_to_head_df = <<>>
    /\ wc_result = NoSummary
    /\ final_branch = "none"

\* l.46
LoadData ==
    /\ pc = "start"
    /\ results_df' = load_data(results_csv, shootouts_csv)
    /\ pc' = "ready"
    /\ UNCHANGED <<results_csv, shootouts_csv, args, head_to_head_df,
                   wc_result, final_branch>>

\* l.104-160: the head-to-head page
HeadToHead ==
    /\ pc = "ready"
    /\ \E team1 \in Teams, team2 \in Teams, tournament \in TournamentArgs,
          start_date \in Dates, end_date \in Dates :
        /\ args' = [query |-> "h2h", team1 |-> team1, team2 |-> team2,
                    tournament |-> tournament, start_date |-> start_date,
                    end_date |-> end_date]
        /\ head_to_head_df' =
              Labelled(prepare_head_to_head_data(results_df, team1, team2,
                           tournament, start_date, end_date), team1, team2)
        /\ results_df' = TableAfterLabelling(results_df, team1, team2)
    /\ pc' = "h2h"
    /\ UNCHANGED <<results_csv, shootouts_csv, wc_result, final_branch>>

\* l.162-187: the World Cup page
WorldCup ==
    /\ pc = "ready"
    /\ \E year \in Years :
        /\ args' = [query |-> "wc", year |-> year]
        /\ wc_result' = prepare_world_cup_data(results_df, year)
        /\ final_branch' =
              LET sel == wc_df(results_df, year)
              IN  IF sel = <<>> THEN "none" ELSE FinalBranch(sel[Len(sel)])
        /\ results_df' = TableAfterSummary(results_df, year)
    /\ pc' = "wc"
    /\ UNCHANGED <<results_csv, shootouts_csv, head_to_head_df>>

\* the script runs again on the next interaction; load_data is cached
Rerun ==
    /\ pc \in {"h2h", "wc"}
    /\ pc' = "ready"
    /\ args' = NoArgs
    /\ head_to_head_df' = <<>>
    /\ wc_result' = NoSummary
    /\ final_branch' = "none"
    /\ UNCHANGED <<results_csv, shootouts_csv, results_df>>

Next == LoadData \/ HeadToHead \/ WorldCup \/ Rerun

\* every results.csv of at most MaxRows rows, with an empty shootouts.csv
Init == Start(ResultRows, {})
Spec == Init /\ [][Next]_vars

\* the World Cup page, over every results.csv of at most MaxRows rows and
\* every shootouts.csv of at most MaxShootouts rows
InitWC == Start(ResultRows, ShootoutRows)
NextWC == LoadData \/ WorldCup \/ Rerun
SpecWC == InitWC /\ [][NextWC]_vars

----------------------------------------------------------------------------
(* Claims *)

\* the rows of a labelled frame
RowsOf(labelled) == [i \in 1..Len(labelled) |-> labelled[i].row]

\* the text holds the pattern, character for character, in either case
HasSubstring(text, pat) ==
    \E i \in 0..(Len(text) - Len(pat)) :
        \A j \in 1..Len(pat) : Lower(pat[j]) = Lower(text[i + j])

\* the selection the head-to-head contract describes
Qualifies(row, a) ==
    /\ {row.home_team, row.away_team} = {a.team1, a.team2}
    /\ HasSubstring(row.tournament, a.tournament)
    /\ a.start_date <= row.date
    /\ row.date <= a.end_date

\* C1: the head-to-head query returns exactly the rows of the table, in table
\* order, whose teams are the two teams asked for, whose tournament name
\* holds the filter as a case-insensitive substring and whose date is within
\* the inclusive range.
C1_ExactSelection ==
    pc = "h2h" =>
        RowsOf(head_to_head_df) =
            SelectSeq(results_df, LAMBDA row : Qualifies(row, args))

\* the rows of a frame that are World Cup matches of the year
InYear(df, year) ==
    SelectSeq(df, LAMBDA row :
        row.tournament = FIFA_World_Cup /\ YearOf(row.date) = year)

\* the final: the last match of the table that is a World Cup match of the
\* year asked for
HasFinal == pc = "wc" /\ InYear(results_df, args.year) # <<>>
Final == LET sel == InYear(results_df, args.year) IN sel[Len(sel)]
ReportedWinner == wc_result.final_match.winner

\* C2: when the final has a decisive score, the summary reports the team
\* with the higher score as the winner.
C2_DecisiveFinalWinner ==
    (HasFinal /\ Final.home_score # Final.away_score) =>
        ReportedWinner = (IF Final.home_score > Final.away_score
                          THEN Final.home_team ELSE Final.away_team)

\* a shootout row of shootouts.csv has the key of the row
Linked(row) ==
    \E i \in 1..Len(shootouts_csv) : SameKey(row, shootouts_csv[i])

\* C3: when the final is a draw on scores, the summary reports the shootout
\* winner, and not the draw marker, if the final had a shootout with a
\* winner, and the draw marker if no shootout is linked to the final.
C3_DrawnFinalWinner ==
    (HasFinal /\ Final.home_score = Final.away_score) =>
        /\ (Final.shootout /\ Final.winner \in Teams) =>
              (ReportedWinner = Final.winner /\ ReportedWinner # Draw)
        /\ ~Linked(Final) => ReportedWinner = Draw

\* a final drawn 1-1 and decided by a shootout is reported with its winner
C3_Witness ==
    /\ HasFinal
    /\ Final.home_score = 1
    /\ Final.away_score = 1
    /\ Final.shootout
    /\ Final.winner = "B"
    /\ ReportedWinner = "B"

\* C4: the summary of a year counts the World Cup matches of that year in
\* results.csv, sums their goals, counts their distinct teams and divides
\* the goals by the matches; with no such match it returns no statistics.
C4_SummaryStatistics ==
    pc = "wc" =>
        LET sel == InYear(results_csv, args.year)
        IN  IF sel = <<>>
            THEN wc_result = NoSummary
            ELSE /\ wc_result.total_matches = Len(sel)
                 /\ wc_result.total_goals =
                        SumOver(sel, "home_score") + SumOver(sel, "away_score")
                 /\ wc_result.total_teams =
                        Cardinality(UNION {{sel[i].home_team, sel[i].away_team} :
                                               i \in 1..Len(sel)})
                 /\ wc_result.avg_goals_per_game.num * Len(sel) =
                        wc_result.avg_goals_per_game.den *
                        (SumOver(sel, "home_score") + SumOver(sel, "away_score"))

\* C5: after loading, the annotated table has exactly one row per row of
\* results.csv, in the same order, whatever shootouts.csv holds.
C5_OneRowPerMatch ==
    pc # "start" =>
        /\ Len(results_df) = Len(results_csv)
        /\ \A i \in 1..Len(results_csv) :
              /\ results_df[i].date = results_csv[i].date
              /\ results_df[i].home_team = results_csv[i].home_team
              /\ results_df[i].away_team = results_csv[i].away_team
              /\ results_df[i].home_score = results_csv[i].home_score
              /\ results_df[i].away_score = results_csv[i].away_score
              /\ results_df[i].tournament = results_csv[i].tournament

\* C6: the head-to-head query selects the same matches with its two teams
\* given in either order, and labels each selected row with the win label
\* of the team its outcome names, or with the draw label.
C6_SymmetricAndLabelled ==
    pc = "h2h" =>
        /\ RowsOf(head_to_head_df) =
              prepare_head_to_head_data(results_df, args.team2, args.team1,
                  args.tournament, args.start_date, args.end_date)
        /\ \A i \in 1..Len(head_to_head_df) :
              LET r == head_to_head_df[i]
              IN  /\ r.row.outcome \in {args.team1, args.team2, Draw}
                  /\ r.row.outcome = args.team1 =>
                        r.outcome_label = args.team1 \o " Win"
                  /\ r.row.outcome = args.team2 =>
                        r.outcome_label = args.team2 \o " Win"
                  /\ r.row.outcome = Draw => r.outcome_label = Draw

\* a query of (B, A) that selects a win of A, a win of B and labels them
C6_Witness ==
    /\ pc = "h2h"
    /\ args.team1 = "B"
    /\ args.team2 = "A"
    /\ Len(head_to_head_df) = 2
    /\ head_to_head_df[1].row.outcome = "A"
    /\ head_to_head_df[1].outcome_label = "A Win"
    /\ head_to_head_df[2].row.outcome = "B"
    /\ head_to_head_df[2].outcome_label = "B Win"

C8_OutcomeAgreesWithScores ==
    \A i \in 1..Len(results_df) :
        LET row == results_df[i]
        IN  /\ row.outcome = row.home_team <=> row.home_score > row.away_score
            /\ row.outcome = row.away_team <=> row.away_score > row.home_score
            /\ row.outcome = Draw <=> row.home_score = row.away_score

\* a loaded table with a goalless draw and an away win
C8_Witness ==
    /\ Len(results_df) = 2
    /\ results_df[1].home_score = 0
    /\ results_df[1].away_score = 0
    /\ results_df[1].outcome = Draw
    /\ results_df[2].home_score = 0
    /\ results_df[2].away_score = 1
    /\ results_df[2].outcome = results_df[2].away_team

\* C9: whatever queries have run, the annotated table is the table that
\* load_data returned.
C9_TableUnchanged ==
    pc # "start" => results_df = load_data(results_csv, shootouts_csv)

\* a summary that reports 'Draw' for its final, whose row in the table still
\* has no winner
C9_Witness ==
    /\ HasFinal
    /\ ReportedWinner = Draw
    /\ Final.winner = NaN
    /\ results_df = load_data(results_csv, shootouts_csv)

\* C10: the shootout flag of every annotated match is true exactly when its
\* winner is present, and the summary never takes the branch of a final
\* with a shootout and no winner.
C10_FlagIsWinnerPresent ==
    /\ \A i \in 1..Len(results_df) :
          results_df[i].shootout <=> results_df[i].winner # NaN
    /\ final_branch # "penalties"

\* a summary whose final is linked to a shootout row with a missing winner
C10_Witness ==
    /\ HasFinal
    /\ Linked(Final)
    /\ Final.winner = NaN
    /\ ~Final.shootout
    /\ final_branch = "draw"

====
